---- MODULE Spec2Model ----
(***************************************************************************)
(* A model of download_nexus.py: the paginated asset search, the Maven     *)
(* coordinate parser, the snapshot deduplicator, the retrying download and *)
(* the orchestration loop of main.                                         *)
(*                                                                         *)
(* Paths, tokens and timestamps are TLA+ strings, handled as sequences of  *)
(* characters (Len, SubSeq, \o), so that stripping, splitting, the two     *)
(* regular expressions and Python's string comparison are computed, not    *)
(* assumed.  A Python None is the empty tuple and a present value v is the *)
(* one-element tuple <<v>>.                                                *)
(*                                                                         *)
(* The environment is the Nexus server: every HTTP response is chosen      *)
(* nondeterministically.  The local filesystem is taken to accept every    *)
(* makedirs/open/write (an OSError is not a server response and is not     *)
(* caught anywhere in the program).                                        *)
(***************************************************************************)
EXTENDS Integers, Sequences, FiniteSets, TLC

VARIABLES
    pc,                 \* where main is: "search", "return", "loop", "download", "done", "exited"; "call"/"returned" for the filter alone
    group_id,           \* args.group
    ext,                \* index into Extensions of the running search pass
    continuation_token, \* search_assets' local: None or the last token received
    assets,             \* search_assets' local accumulator
    all_assets,         \* main's combined list; after the search, the filtered list
    sent,               \* history: the continuationToken parameter of every request of the running search_assets call
    recv,               \* history: the continuationToken of every response of the running call
    pages,              \* history: the items of every response of the running call
    searches_done,      \* history: search_assets calls that have returned
    search_failed,      \* history: the server has answered a search request with an error
    i,                  \* records of all_assets fully processed by the download loop
    success_count,
    skip_count,
    fail_count,
    attempt,            \* download_file's loop variable
    responses,          \* history: the responses to the download requests made for the record last taken from the list
    outcome,            \* history: how the last processed record ended
    fs,                 \* the local directory: destination path -> "absent" | "partial" | "complete"
    fs0,                \* history: fs when the current run of the download phase began
    fetched,            \* history: a download request was issued in the current run of the download phase
    run,                \* 1 for the first run of the download phase, 2 for the re-run
    exit_code,          \* None while running, <<0>> or <<1>> once the process has ended
    input,              \* the argument of filter_latest_snapshots called on its own
    output              \* its return value

vars == <<pc, group_id, ext, continuation_token, assets, all_assets, sent, recv,
          pages, searches_done, search_failed, i, success_count, skip_count,
          fail_count, attempt, responses, outcome, fs, fs0, fetched, run,
          exit_code, input, output>>

-----------------------------------------------------------------------------
(* Bounds of the model *)

\* longest list handed to filter_latest_snapshots on its own
MaxLen == 3

\* pages one search_assets call is followed through
MaxPages == 3

\* records the two search passes may accumulate
MaxAssets == 4

-----------------------------------------------------------------------------
(* Python values and string primitives *)

None == <<>>

Some(v) == <<v>>

Min(S) == CHOOSE m \in S : \A n \in S : m <= n

Max(S) == CHOOSE m \in S : \A n \in S : m >= n

\* s[k:k+1]: the empty string outside the string
Char(s, k) == IF k \in 1..Len(s) THEN SubSeq(s, k, k) ELSE ""

\* the characters the model's strings use, in code point order
CodePoints == "*-./0123456789:ABCDEFGHIJKLMNOPQRSTUVWXYZ_abcdefghijklmnopqrstuvwxyz"

Ord(c) == CHOOSE k \in 1..Len(CodePoints) : Char(CodePoints, k) = c

IsDigit(c) == c \in {"0", "1", "2", "3", "4", "5", "6", "7", "8", "9"}

AllDigits(s, a, b) == \A k \in a..b : IsDigit(Char(s, k))

\* str.startswith
StartsWith(s, p) == Len(s) >= Len(p) /\ SubSeq(s, 1, Len(p)) = p

\* p in s
Contains(s, p) == \E k \in 1..(Len(s) - Len(p) + 1) : SubSeq(s, k, k + Len(p) - 1) = p

\* str.lstrip("/")
RECURSIVE LStrip(_)
LStrip(s) == IF Char(s, 1) = "/" THEN LStrip(Tail(s)) ELSE s

\* str.rstrip("/")
RECURSIVE RStrip(_)
RStrip(s) == IF Char(s, Len(s)) = "/" THEN RStrip(SubSeq(s, 1, Len(s) - 1)) ELSE s

\* str.strip("/")
Strip(s) == RStrip(LStrip(s))

\* str.split("/"): empty segments are kept
RECURSIVE Split(_)
Split(s) ==
    LET at == {k \in 1..Len(s) : Char(s, k) = "/"}
    IN  IF at = {} THEN <<s>>
        ELSE <<SubSeq(s, 1, Min(at) - 1)>> \o Split(SubSeq(s, Min(at) + 1, Len(s)))

\* "/".join(parts)
RECURSIVE Join(_)
Join(parts) ==
    IF parts = <<>> THEN ""
    ELSE IF Len(parts) = 1 THEN parts[1]
    ELSE parts[1] \o "/" \o Join(Tail(parts))

\* a < b where the code has a > b
StrGTFlipped(a, b) ==
    LET n == IF Len(a) < Len(b) THEN Len(a) ELSE Len(b)
        d == {k \in 1..n : Char(a, k) # Char(b, k)}
    IN  IF d = {} THEN Len(a) < Len(b)
        ELSE Ord(Char(a, Min(d))) < Ord(Char(b, Min(d)))

\* Python's a > b on str: the first differing character decides, a proper prefix is smaller
StrGT(a, b) ==
    LET n == IF Len(a) < Len(b) THEN Len(a) ELSE Len(b)
        d == {k \in 1..n : Char(a, k) # Char(b, k)}
    IN  IF d = {} THEN Len(a) > Len(b)
        ELSE Ord(Char(a, Min(d))) > Ord(Char(b, Min(d)))

-----------------------------------------------------------------------------
(* The timestamp patterns of parse_artifact_info and filter_latest_snapshots *)

\* \d{8}
DateDigits == 8

\* \d{6}
TimeDigits == 6

\* the last index of the run of digits that starts at k (k - 1 when s[k] is no digit)
DigitRunEnd(s, k) ==
    LET stop == {m \in k..Len(s) : ~IsDigit(Char(s, m))}
    IN  IF stop = {} THEN Len(s) ELSE Min(stop) - 1

\* -\d{8}\.\d{6}- matched at k: the index of the first build number character, else 0
StampAt(s, k) ==
    LET dot  == k + DateDigits + 1
        dash == dot + TimeDigits + 1
    IN  IF /\ dash <= Len(s)
           /\ Char(s, k) = "-"
           /\ AllDigits(s, k + 1, dot - 1)
           /\ Char(s, dot) = "."
           /\ AllDigits(s, dot + 1, dash - 1)
           /\ Char(s, dash) = "-"
        THEN dash + 1 ELSE 0

\* -(\d{8}\.\d{6})-(\d+)\. matched at k: \d+ is greedy and a "." must follow the digits
TimestampMatchAt(s, k) ==
    LET b == StampAt(s, k)
    IN  /\ b > 0
        /\ DigitRunEnd(s, b) >= b
        /\ Char(s, DigitRunEnd(s, b) + 1) = "."

\* re.search(r'-(\d{8}\.\d{6})-(\d+)\.', s) is not None
TimestampSearch(s) == \E k \in 1..Len(s) : TimestampMatchAt(s, k)

\* group(1) + "-" + group(2) of the leftmost match
TimestampOf(s) ==
    LET k == Min({m \in 1..Len(s) : TimestampMatchAt(s, m)})
        b == StampAt(s, k)
    IN  SubSeq(s, k + 1, b - 2) \o "-" \o SubSeq(s, b, DigitRunEnd(s, b))

\* re.match(r'^(.+)-\d{8}\.\d{6}-\d+$', version): where group(1) ends, else 0.
\* The digits must run to the end of the string, so at most one k matches.
VersionMatchEnd(s) ==
    LET ks == {k \in 2..Len(s) :
                 /\ StampAt(s, k) > 0
                 /\ DigitRunEnd(s, StampAt(s, k)) >= StampAt(s, k)
                 /\ DigitRunEnd(s, StampAt(s, k)) = Len(s)}
    IN  IF ks = {} THEN 0 ELSE Max(ks) - 1

-----------------------------------------------------------------------------
(* parse_artifact_info, get_version_key *)

\* len(parts) < 4 gives None
MinSegments == 4

parse_artifact_info(path) ==
    LET parts == Split(Strip(path))
        n == Len(parts)
    IN  IF n < MinSegments THEN None
        ELSE LET filename == parts[n]
                 version == parts[n - 1]
                 e == VersionMatchEnd(version)
             IN  Some([group_path |-> Join(SubSeq(parts, 1, n - 3)),
                       artifact_id |-> parts[n - 2],
                       base_version |->
                           IF ~Contains(version, "-SNAPSHOT") /\ e > 0
                           THEN SubSeq(version, 1, e) \o "-SNAPSHOT"
                           ELSE version,
                       filename |-> filename,
                       timestamp |->
                           IF TimestampSearch(filename)
                           THEN Some(TimestampOf(filename)) ELSE None])

get_version_key(group_path, artifact_id, base_version) ==
    group_path \o "/" \o artifact_id \o "/" \o base_version

-----------------------------------------------------------------------------
(* Asset records *)

Url == "u"

Asset(p, u) == [path |-> p, downloadUrl |-> u]

\* the records filter_latest_snapshots is tried on
FilterPool ==
    { Asset("com/acme/lib/1.0-SNAPSHOT/lib-1.0-20230101.100000-1.jar", Url),
      Asset("com/acme/lib/1.0-SNAPSHOT/lib-1.0-20230102.110000-2.jar", Url),
      Asset("/com/acme/lib/1.0-SNAPSHOT/lib-1.0-20230102.110000-2.pom", Url),
      Asset("com/acme/lib/1.0-20230102.110000-10/lib-1.0-20230102.110000-10.jar", Url),
      Asset("com/acme/lib/1.0-SNAPSHOT/maven-metadata.xml", Url),
      Asset("com/acme/app/1.0-SNAPSHOT/app-1.0-20230101.100000-1.jar", Url),
      Asset("lib/1.0-SNAPSHOT/lib-1.0-20230103.120000-3.jar", Url),
      Asset("com/acme/lib/2.0/lib-2.0.jar", Url),
      Asset("", Url) }

\* what the server may answer to a search request
ServerPool ==
    { Asset("com/acme/lib/2.0/lib-2.0.jar", Url),
      Asset("/com/acme/lib/1.0-SNAPSHOT/lib-1.0-20230101.100000-1.jar", Url),
      Asset("com/acme/lib/1.0-SNAPSHOT/lib-1.0-20230102.110000-2.jar", Url),
      Asset("com/acme2/lib/1.0/lib-1.0.jar", Url),
      Asset("org/other/x/1.0/x-1.0.jar", Url),
      Asset("com/acme/lib/2.0/lib-2.0.jar", "") }

\* every record of the model
Records == FilterPool \cup ServerPool

\* asset.get("path", "").strip("/"), evaluated once per record
PathOf == [a \in Records |-> Strip(a.path)]

\* "-SNAPSHOT" in path or re.search(r'-\d{8}\.\d{6}-\d+\.', path)
IsSnapshotPath(path) == Contains(path, "-SNAPSHOT") \/ TimestampSearch(path)

\* the test of lines 187 and 203, evaluated once per record
IsSnapshot == [a \in Records |-> IsSnapshotPath(PathOf[a])]

\* parse_artifact_info(path) of lines 188 and 204, evaluated once per record
InfoOf == [a \in Records |-> parse_artifact_info(PathOf[a])]

-----------------------------------------------------------------------------
(* filter_latest_snapshots *)

KeyOf(info) == get_version_key(info.group_path, info.artifact_id, info.base_version)

\* one iteration of the first pass: the dict after looking at asset
ScanAsset(latest, asset) ==
    LET path == PathOf[asset]
        info == InfoOf[asset]
    IN  IF path = "" \/ ~IsSnapshot[asset] \/ info = None THEN latest
        ELSE IF info[1].timestamp = None THEN latest
        ELSE LET key == KeyOf(info[1])
                 ts == info[1].timestamp[1]
             IN  IF key \notin DOMAIN latest \/ StrGT(ts, latest[key])
                 THEN [k \in DOMAIN latest \cup {key} |-> IF k = key THEN ts ELSE latest[k]]
                 ELSE latest

\* the first pass: version_latest_timestamp after the whole list
RECURSIVE ScanPass(_, _)
ScanPass(latest, list) ==
    IF list = <<>> THEN latest
    ELSE ScanPass(ScanAsset(latest, Head(list)), Tail(list))

\* version_latest_timestamp.get(key)
DictGet(latest, key) == IF key \in DOMAIN latest THEN Some(latest[key]) ELSE None

\* the second pass on one asset: "drop", "non_snapshot" or "latest_snapshots"
FilterAsset(latest, asset) ==
    LET path == PathOf[asset]
        info == InfoOf[asset]
    IN  IF path = "" THEN "drop"
        ELSE IF ~IsSnapshot[asset] THEN "non_snapshot"
        ELSE IF info = None THEN "non_snapshot"
        ELSE IF \/ info[1].timestamp = None
                \/ info[1].timestamp = DictGet(latest, KeyOf(info[1]))
             THEN "latest_snapshots"
        ELSE "drop"

RECURSIVE Collect(_, _, _)
Collect(latest, list, which) ==
    IF list = <<>> THEN <<>>
    ELSE (IF FilterAsset(latest, Head(list)) = which THEN <<Head(list)>> ELSE <<>>)
         \o Collect(latest, Tail(list), which)

EmptyDict == [k \in {} |-> ""]

\* the two lists returned in the other order
filter_latest_snapshots_swapped(list) ==
    LET latest == ScanPass(EmptyDict, list)
    IN  Collect(latest, list, "latest_snapshots") \o Collect(latest, list, "non_snapshot")

filter_latest_snapshots(list) ==
    LET latest == ScanPass(EmptyDict, list)
    IN  Collect(latest, list, "non_snapshot") \o Collect(latest, list, "latest_snapshots")

RECURSIVE Lists(_, _)
Lists(S, n) ==
    IF n = 0 THEN {<<>>}
    ELSE Lists(S, n - 1) \cup {<<x>> \o l : x \in S, l \in {m \in Lists(S, n - 1) : Len(m) = n - 1}}

-----------------------------------------------------------------------------
(* The filter on its own: every list of up to MaxLen pool records *)

InitFilter ==
    /\ pc = "call"
    /\ input \in Lists(FilterPool, MaxLen)
    /\ output = <<>>
    /\ group_id = "" /\ ext = 1 /\ continuation_token = None
    /\ assets = <<>> /\ all_assets = <<>>
    /\ sent = <<>> /\ recv = <<>> /\ pages = <<>>
    /\ searches_done = 0 /\ search_failed = FALSE
    /\ i = 0 /\ success_count = 0 /\ skip_count = 0 /\ fail_count = 0
    /\ attempt = 0 /\ responses = <<>> /\ outcome = "none"
    /\ fs = <<>> /\ fs0 = <<>>
    /\ fetched = FALSE /\ run = 1 /\ exit_code = None

FilterCall ==
    /\ pc = "call"
    /\ output' = filter_latest_snapshots(input)
    /\ pc' = "returned"
    /\ UNCHANGED <<group_id, ext, continuation_token, assets, all_assets, sent,
                   recv, pages, searches_done, search_failed, i, success_count,
                   skip_count, fail_count, attempt, responses, outcome, fs, fs0,
                   fetched, run, exit_code, input>>

NextFilter == FilterCall

SpecFilter == InitFilter /\ [][NextFilter]_vars

-----------------------------------------------------------------------------
(* search_assets *)

Extensions == <<"jar", "pom">>

\* group_id.replace(".", "/")
RECURSIVE group_to_path_prefix(_)
group_to_path_prefix(g) ==
    IF g = "" THEN ""
    ELSE (IF Char(g, 1) = "." THEN "/" ELSE Char(g, 1)) \o group_to_path_prefix(Tail(g))

\* the test of line 108
PrefixMatch(item_path, path_prefix) ==
    StartsWith(item_path, path_prefix \o "/") \/ StartsWith(item_path, path_prefix)

\* the values of --group the model runs with
Groups == {"com.acme", "com.acme.lib"}

\* lines 107-108 on one item, evaluated once per record and group
Matches ==
    [a \in ServerPool |->
        [g \in Groups |-> PrefixMatch(LStrip(a.path), group_to_path_prefix(g))]]

\* lines 106-109: the items of one page that are appended to assets
RECURSIVE MatchingItems(_, _)
MatchingItems(items, g) ==
    IF items = <<>> THEN <<>>
    ELSE (IF Matches[Head(items)][g] THEN <<Head(items)>> ELSE <<>>)
         \o MatchingItems(Tail(items), g)

\* Python truth of an optional string: None and "" are false
Truthy(tok) == tok # None /\ tok # Some("")

\* the token never sent
TokenParamDropped(tok) == None

\* params["continuationToken"], set only "if continuation_token"
TokenParam(tok) == IF Truthy(tok) THEN tok ELSE None

\* raise_for_status left out
RaisesOnlyTransport(kind) == kind = "neterror"

\* requests.get raising, or raise_for_status on a status that is no success
RaisesRequestException(kind) == kind \in {"neterror", "http500"}

\* the lists of items a search response may carry
PagePool ==
    { <<>>,
      << Asset("com/acme/lib/2.0/lib-2.0.jar", Url) >>,
      << Asset("com/acme/lib/2.0/lib-2.0.jar", Url),
         Asset("com/acme/lib/2.0/lib-2.0.jar", "") >>,
      << Asset("com/acme/lib/1.0-SNAPSHOT/lib-1.0-20230102.110000-2.jar", Url),
         Asset("/com/acme/lib/1.0-SNAPSHOT/lib-1.0-20230101.100000-1.jar", Url) >>,
      << Asset("org/other/x/1.0/x-1.0.jar", Url),
         Asset("com/acme2/lib/1.0/lib-1.0.jar", Url) >> }

Tokens == {None, Some(""), Some("t1"), Some("t2")}

\* a failed request has no body: data.get finds neither items nor a token
SearchResponses ==
    [kind : {"ok"}, items : PagePool, token : Tokens]
    \cup [kind : {"neterror", "http500"}, items : {<<>>}, token : {None}]

-----------------------------------------------------------------------------
(* download_file and the local directory *)

OUTPUT_DIR == "repo"

\* os.path.join(OUTPUT_DIR, path.lstrip("/"))
LocalPath(path) == OUTPUT_DIR \o "/" \o LStrip(path)

\* line 309, evaluated once per record
LocalPathOf == [a \in ServerPool |-> LocalPath(a.path)]

Dests == {LocalPathOf[a] : a \in ServerPool}

\* the check of line 312 left out
ExistsNever(dir, local_path) == FALSE

\* os.path.exists(local_path)
Exists(dir, local_path) == dir[local_path] # "absent"

\* range(retries + 1)
retries_plus_one == 3 + 1

\* download_file's retries=3
retries == 3

\* what the server may do with a download request: a success streamed to the
\* end, a 404, a failure before the file is opened (no connection, a timeout,
\* a status raise_for_status rejects), a failure of iter_content after
\* open(local_path, "wb") has created the file
DownloadResponses == {"ok", "http404", "error", "midstream"}

Transient(r) == r \in {"error", "midstream"}

\* the local directory after one attempt
WriteFile(dir, local_path, r) ==
    IF r = "ok" THEN [dir EXCEPT ![local_path] = "complete"]
    ELSE IF r = "midstream" THEN [dir EXCEPT ![local_path] = "partial"]
    ELSE dir

\* the else branch of line 324 left out
TallyDropsFailure(counts, success, skipped) ==
    IF success THEN [counts EXCEPT !.success = @ + 1]
    ELSE IF skipped THEN [counts EXCEPT !.skip = @ + 1]
    ELSE counts

\* main's three counters after a download_file call returned (success, skipped)
Tally(counts, success, skipped) ==
    IF success THEN [counts EXCEPT !.success = @ + 1]
    ELSE IF skipped THEN [counts EXCEPT !.skip = @ + 1]
    ELSE [counts EXCEPT !.fail = @ + 1]

Counts == [success |-> success_count, skip |-> skip_count, fail |-> fail_count]

-----------------------------------------------------------------------------
(* main *)

\* no file under repo/
EmptyDir == [d \in Dests |-> "absent"]

\* the local directory the process may start with: empty, or holding one
\* file of an earlier run
InitialDirs ==
    { EmptyDir,
      [EmptyDir EXCEPT ![LocalPath("com/acme/lib/2.0/lib-2.0.jar")] = "complete"] }

Init ==
    /\ pc = "search"
    /\ group_id \in Groups
    /\ ext = 1
    /\ continuation_token = None
    /\ assets = <<>>
    /\ all_assets = <<>>
    /\ sent = <<>> /\ recv = <<>> /\ pages = <<>>
    /\ searches_done = 0 /\ search_failed = FALSE
    /\ i = 0 /\ success_count = 0 /\ skip_count = 0 /\ fail_count = 0
    /\ attempt = 0 /\ responses = <<>> /\ outcome = "none"
    /\ fs \in InitialDirs
    /\ fs0 = fs
    /\ fetched = FALSE /\ run = 1 /\ exit_code = None
    /\ input = <<>> /\ output = <<>>

\* lines 82-96: one search request and its response
Exchange(resp) ==
    /\ sent' = Append(sent, TokenParam(continuation_token))
    /\ recv' = Append(recv, resp.token)
    /\ pages' = Append(pages, resp.items)
    /\ search_failed' = (search_failed \/ resp.kind # "ok")

\* lines 90-100: the request raises, the process prints and calls sys.exit(1)
SearchFails ==
    /\ pc = "search"
    /\ Len(sent) < MaxPages
    /\ \E resp \in SearchResponses :
        /\ RaisesRequestException(resp.kind)
        /\ Exchange(resp)
    /\ pc' = "exited"
    /\ exit_code' = Some(1)
    /\ UNCHANGED <<group_id, ext, continuation_token, assets, all_assets,
                   searches_done, i, success_count, skip_count, fail_count,
                   attempt, responses, outcome, fs, fs0, fetched, run, input,
                   output>>

\* lines 102-115: a page is added to assets; with a token the loop goes round,
\* without one it is left
SearchPage ==
    /\ pc = "search"
    /\ Len(sent) < MaxPages
    /\ \E resp \in SearchResponses :
        LET found == assets \o MatchingItems(resp.items, group_id)
        IN  /\ ~RaisesRequestException(resp.kind)
            /\ Len(all_assets) + Len(found) <= MaxAssets
            /\ Exchange(resp)
            /\ assets' = found
            /\ continuation_token' = resp.token
            /\ pc' = IF Truthy(resp.token) THEN "search" ELSE "return"
    /\ UNCHANGED <<group_id, ext, all_assets, searches_done, i, success_count,
                   skip_count, fail_count, attempt, responses, outcome, fs, fs0,
                   fetched, run, exit_code, input, output>>

\* lines 117 and 277-297: search_assets returns assets and its locals are gone;
\* main extends all_assets and starts the next pass, or, after the last pass,
\* returns when nothing was found, or filters the list and enters the loop
SearchReturns ==
    /\ pc = "return"
    /\ searches_done' = searches_done + 1
    /\ assets' = <<>>
    /\ continuation_token' = None
    /\ sent' = <<>> /\ recv' = <<>> /\ pages' = <<>>
    /\ LET combined == all_assets \o assets
       IN  IF ext < Len(Extensions)
           THEN /\ ext' = ext + 1
                /\ all_assets' = combined
                /\ pc' = "search"
                /\ UNCHANGED exit_code
           ELSE /\ ext' = ext
                /\ all_assets' = IF combined = <<>> THEN <<>>
                                 ELSE filter_latest_snapshots(combined)
                /\ pc' = IF all_assets' = <<>> THEN "done" ELSE "loop"
                /\ exit_code' = IF all_assets' = <<>> THEN Some(0) ELSE None
    /\ UNCHANGED <<group_id, search_failed, i, success_count, skip_count,
                   fail_count, attempt, responses, outcome, fs, fs0, fetched,
                   run, input, output>>

\* the loop of line 299 after one more record: the next record, or the summary and the return
AfterRecord ==
    /\ i' = i + 1
    /\ pc' = IF i + 1 = Len(all_assets) THEN "done" ELSE "loop"
    /\ exit_code' = IF i + 1 = Len(all_assets) THEN Some(0) ELSE None

SetCounts(counts) ==
    /\ success_count' = counts.success
    /\ skip_count' = counts.skip
    /\ fail_count' = counts.fail

\* lines 299-319: one record up to its first download request
ProcessAsset ==
    /\ pc = "loop"
    /\ i < Len(all_assets)
    /\ responses' = <<>>
    /\ LET asset == all_assets[i + 1]
           local_path == LocalPathOf[asset]
       IN  IF asset.path = "" \/ asset.downloadUrl = ""
           THEN /\ SetCounts([Counts EXCEPT !.skip = @ + 1])
                /\ outcome' = "nourl"
                /\ AfterRecord
                /\ UNCHANGED attempt
           ELSE IF Exists(fs, local_path)
           THEN /\ SetCounts([Counts EXCEPT !.success = @ + 1])
                /\ outcome' = "exists"
                /\ AfterRecord
                /\ UNCHANGED attempt
           ELSE /\ pc' = "download"
                /\ attempt' = 0
                /\ UNCHANGED <<i, success_count, skip_count, fail_count, outcome, exit_code>>
    /\ UNCHANGED <<group_id, ext, continuation_token, assets, all_assets, sent,
                   recv, pages, searches_done, search_failed, fs, fs0, fetched,
                   run, input, output>>

\* lines 235-260 and 319-325: one request of download_file; when it ends the
\* call, main counts the result and moves to the next record
DownloadAttempt ==
    /\ pc = "download"
    /\ \E r \in DownloadResponses :
        LET local_path == LocalPathOf[all_assets[i + 1]]
        IN  /\ fetched' = TRUE
            /\ responses' = Append(responses, r)
            /\ fs' = WriteFile(fs, local_path, r)
            /\ IF r = "http404"
               THEN /\ SetCounts(Tally(Counts, FALSE, TRUE))
                    /\ outcome' = "missing"
                    /\ AfterRecord
                    /\ UNCHANGED attempt
               ELSE IF r = "ok"
               THEN /\ SetCounts(Tally(Counts, TRUE, FALSE))
                    /\ outcome' = "success"
                    /\ AfterRecord
                    /\ UNCHANGED attempt
               ELSE IF attempt < retries - 1
               THEN /\ attempt' = attempt + 1
                    /\ UNCHANGED <<pc, i, success_count, skip_count, fail_count,
                                   outcome, exit_code>>
               ELSE /\ SetCounts(Tally(Counts, FALSE, FALSE))
                    /\ outcome' = "failed"
                    /\ AfterRecord
                    /\ UNCHANGED attempt
    /\ UNCHANGED <<group_id, ext, continuation_token, assets, all_assets, sent,
                   recv, pages, searches_done, search_failed, fs0, run, input,
                   output>>

\* the download phase run again: the remote is unchanged, so the search and the
\* filter give the same list, and the local directory is what the first run left
Rerun ==
    /\ pc = "done"
    /\ run = 1
    /\ all_assets # <<>>
    /\ run' = 2
    /\ pc' = "loop"
    /\ exit_code' = None
    /\ i' = 0
    /\ SetCounts([success |-> 0, skip |-> 0, fail |-> 0])
    /\ fetched' = FALSE
    /\ fs0' = fs
    /\ attempt' = 0 /\ responses' = <<>> /\ outcome' = "none"
    /\ UNCHANGED <<group_id, ext, continuation_token, assets, all_assets, sent,
                   recv, pages, searches_done, search_failed, fs, input, output>>

Next ==
    \/ SearchFails
    \/ SearchPage
    \/ SearchReturns
    \/ ProcessAsset
    \/ DownloadAttempt
    \/ Rerun

Spec == Init /\ [][Next]_vars

-----------------------------------------------------------------------------
(* Vocabulary of the properties *)

Range(list) == {list[k] : k \in 1..Len(list)}

Count(list, x) == Cardinality({k \in 1..Len(list) : list[k] = x})

Last(list) == list[Len(list)]

\* a <= b in the order of code points, character by character
RECURSIVE StrLE(_, _)
StrLE(a, b) ==
    IF a = "" THEN TRUE
    ELSE IF b = "" THEN FALSE
    ELSE IF Char(a, 1) = Char(b, 1) THEN StrLE(Tail(a), Tail(b))
    ELSE Ord(Char(a, 1)) < Ord(Char(b, 1))

\* a snapshot-family record with a coordinate (at least 4 segments) and a buildTimestamp
Stamped(a) == IsSnapshot[a] /\ InfoOf[a] # None /\ InfoOf[a][1].timestamp # None

StampOf(a) == InfoOf[a][1].timestamp[1]

VersionKey(a) ==
    <<InfoOf[a][1].group_path, InfoOf[a][1].artifact_id, InfoOf[a][1].base_version>>

\* the stamped records of the input that share a's VersionKey
Family(a) == {b \in Range(input) : Stamped(b) /\ VersionKey(b) = VersionKey(a)}

\* a carries the greatest timestamp of its family
IsLatest(a) == \A b \in Family(a) : StrLE(StampOf(b), StampOf(a))

-----------------------------------------------------------------------------
(* C1 *)

-----------------------------------------------------------------------------
(* C2 *)

\* C2: once filter_latest_snapshots has returned, every record of the input
\* that is not snapshot-family is in the output as often as in the input.
C2_NonSnapshotIdentity ==
    pc = "returned" =>
        \A a \in Range(input) :
            ~IsSnapshot[a] => Count(output, a) = Count(input, a)

-----------------------------------------------------------------------------
(* C3 *)

NonSnapshot(a) == ~IsSnapshot[a]

\* a snapshot-family record the filter keeps, as the claim lists them
RetainedSnapshot(a) ==
    /\ IsSnapshot[a]
    /\ \/ InfoOf[a] = None
       \/ InfoOf[a][1].timestamp = None
       \/ IsLatest(a)

\* C3 as claimed, on the inputs that hold no record with an empty path: the
\* output is the non-snapshot records in input order, followed by the
\* retained snapshot-family records, those whose coordinate failed to parse
\* among them, in input order.
C3_Original ==
    (pc = "returned" /\ \A a \in Range(input) : PathOf[a] # "") =>
        output = SelectSeq(input, NonSnapshot) \o SelectSeq(input, RetainedSnapshot)

\* a record with a path that is non-snapshot, or snapshot-family without a coordinate
PassedThrough(a) == PathOf[a] # "" /\ (~IsSnapshot[a] \/ InfoOf[a] = None)

\* a snapshot-family record with a coordinate that the filter keeps
RetainedParsed(a) ==
    /\ PathOf[a] # ""
    /\ IsSnapshot[a]
    /\ InfoOf[a] # None
    /\ (InfoOf[a][1].timestamp = None \/ IsLatest(a))

\* C3 (amended): the output is, in input order, the records with a non-empty
\* path that are non-snapshot or whose coordinate failed to parse, followed
\* by, in input order, the snapshot-family records with a coordinate that are
\* retained; no other record is in the output.
C3_PassedThroughThenRetained ==
    pc = "returned" =>
        output = SelectSeq(input, PassedThrough) \o SelectSeq(input, RetainedParsed)

\* a snapshot-family record without a coordinate went in before a non-snapshot
\* record and came out before it, and a retained build came out after both
C3_Witness ==
    /\ pc = "returned"
    /\ Len(output) = 3
    /\ IsSnapshot[output[1]] /\ InfoOf[output[1]] = None
    /\ ~IsSnapshot[output[2]]
    /\ Stamped(output[3])
    /\ input[1] = output[3]

-----------------------------------------------------------------------------
(* C4 *)

\* C4: every record a search_assets call returns has a path that, with its
\* leading slashes stripped, starts with the group prefix followed by "/".
C4_SlashBoundedPrefix ==
    pc = "return" =>
        \A a \in Range(assets) :
            StartsWith(LStrip(a.path), group_to_path_prefix(group_id) \o "/")

-----------------------------------------------------------------------------
(* C5 *)

AllTransient(list) == \A k \in 1..Len(list) : Transient(list[k])

\* C5: download_file issues at most 3 requests; while it runs every response
\* so far was a transient failure; it returns Success at the first successful
\* response, MissingRemote at the first 404, and Failed after exactly 3
\* transient failures; a record that is not downloaded gets no request.
C5_BoundedRetries ==
    /\ Len(responses) <= 3
    /\ pc = "download" => (AllTransient(responses) /\ Len(responses) < 3)
    /\ (pc # "download" /\ outcome = "success") =>
           /\ responses # <<>>
           /\ Last(responses) = "ok"
           /\ AllTransient(SubSeq(responses, 1, Len(responses) - 1))
    /\ (pc # "download" /\ outcome = "missing") =>
           /\ responses # <<>>
           /\ Last(responses) = "http404"
           /\ AllTransient(SubSeq(responses, 1, Len(responses) - 1))
    /\ (pc # "download" /\ outcome = "failed") =>
           /\ Len(responses) = 3
           /\ AllTransient(responses)
    /\ (pc # "download" /\ outcome \in {"exists", "nourl", "none"}) => responses = <<>>

\* a call gave up after three transient failures, one of them in mid-stream
C5_Witness ==
    /\ pc # "download"
    /\ outcome = "failed"
    /\ Len(responses) = 3
    /\ "midstream" \in Range(responses)
    /\ "error" \in Range(responses)

-----------------------------------------------------------------------------
(* C6 *)

\* a download request was issued, a file was written, or the loop was entered
DownloadPhaseEntered ==
    \/ pc \in {"loop", "download"}
    \/ fetched
    \/ run = 2
    \/ i > 0
    \/ fs # fs0

\* C6: when the server has answered a search request with an error the
\* process has exited with status 1, has issued no download request and has
\* written no file; whenever the download phase has been entered both search
\* passes returned and no search request met an error.
C6_SearchFailureIsFatal ==
    /\ search_failed =>
           /\ pc = "exited"
           /\ exit_code = Some(1)
           /\ ~DownloadPhaseEntered
    /\ DownloadPhaseEntered =>
           /\ ~search_failed
           /\ searches_done = Len(Extensions)
    /\ pc = "exited" <=> search_failed

\* the jar pass had returned records when the second request of the pom pass
\* met an error
C6_Witness ==
    /\ search_failed
    /\ pc = "exited"
    /\ searches_done = 1
    /\ all_assets # <<>>
    /\ Len(sent) = 2

-----------------------------------------------------------------------------
(* C7 *)

\* C7: the three counters add up to the number of records processed so far;
\* the loop is still running exactly while records are left, whatever the
\* outcome of the last one; at the end every surviving record was counted.
C7_CountersAddUp ==
    /\ success_count + skip_count + fail_count = i
    /\ i <= Len(all_assets)
    /\ pc \in {"loop", "download"} => i < Len(all_assets)
    /\ pc = "done" =>
           /\ i = Len(all_assets)
           /\ success_count + skip_count + fail_count = Len(all_assets)
    /\ (outcome # "none" /\ i < Len(all_assets)) => pc \in {"loop", "download"}

\* a run ended with one record in each counter, the failed one not the last
C7_Witness ==
    /\ pc = "done"
    /\ success_count = 1 /\ skip_count = 1 /\ fail_count = 1
    /\ outcome # "failed"

-----------------------------------------------------------------------------
(* C8 *)

\* every destination existed when the run began
Populated == \A k \in 1..Len(all_assets) : fs0[LocalPathOf[all_assets[k]]] # "absent"

HasUrl(a) == a.path # "" /\ a.downloadUrl # ""

\* C8 as claimed: a second run over a populated directory issues no download
\* request and reports every record as already-satisfied.
C8_Original ==
    (run = 2 /\ Populated) =>
        /\ ~fetched
        /\ pc = "done" => success_count = Len(all_assets)

\* the second run over a populated directory: no request, no write, no
\* failure, every record with a downloadUrl counted as already-satisfied and
\* every record without one counted as skipped
C8_SecondRun ==
    (run = 2 /\ Populated) =>
        /\ ~fetched
        /\ fs = fs0
        /\ responses = <<>>
        /\ fail_count = 0
        /\ pc = "done" =>
               /\ success_count = Cardinality({k \in 1..Len(all_assets) : HasUrl(all_assets[k])})
               /\ skip_count = Cardinality({k \in 1..Len(all_assets) : ~HasUrl(all_assets[k])})

\* in either run, the step that takes a record whose destination exists
\* issues no request, leaves the directory alone and counts a success
C8_ExistingFileStep ==
    (/\ pc = "loop"
     /\ i < Len(all_assets)
     /\ HasUrl(all_assets[i + 1])
     /\ fs[LocalPathOf[all_assets[i + 1]]] # "absent")
    => (/\ fetched' = fetched
        /\ fs' = fs
        /\ pc' # "download"
        /\ i' = i + 1
        /\ success_count' = success_count + 1)

\* C8 (amended): a second run of the download phase over a populated
\* directory issues no download request, writes nothing, and reports every
\* record that has a downloadUrl as already-satisfied and every record
\* without one as skipped; in any run a record whose destination exists is
\* never fetched or overwritten.
C8_IdempotentRerun == []C8_SecondRun /\ [][C8_ExistingFileStep]_vars

\* a second run over a populated directory ended, with a record that has no
\* downloadUrl among at least three
C8_Witness ==
    /\ run = 2 /\ Populated
    /\ pc = "done"
    /\ Len(all_assets) >= 3
    /\ success_count >= 2
    /\ skip_count >= 1

-----------------------------------------------------------------------------
(* C9 *)

\* the prefix-matching items of the pages, page after page
RECURSIVE Concatenated(_)
Concatenated(ps) ==
    IF ps = <<>> THEN <<>>
    ELSE SelectSeq(Head(ps), LAMBDA a : Matches[a][group_id]) \o Concatenated(Tail(ps))

\* C9: in a search_assets call the first request carries no token and every
\* later request carries the token of the response before it, which was
\* present; after a response with a token the call is still in its loop with
\* the matching items of its pages so far; after the first response without
\* one it returns the matching items of all its pages in page order; after an
\* error the process has exited.
C9_Pagination ==
    LET n == Len(sent)
    IN  /\ Len(recv) = n /\ Len(pages) = n
        /\ n > 0 => sent[1] = None
        /\ \A k \in 2..n : sent[k] = recv[k - 1] /\ Truthy(recv[k - 1])
        /\ (n > 0 /\ ~search_failed /\ Truthy(recv[n])) =>
               /\ pc = "search"
               /\ continuation_token = recv[n]
               /\ assets = Concatenated(pages)
        /\ (n > 0 /\ ~search_failed /\ ~Truthy(recv[n])) =>
               /\ pc = "return"
               /\ assets = Concatenated(pages)
        /\ pc = "return" => (n > 0 /\ ~search_failed /\ ~Truthy(recv[n]))
        /\ search_failed <=> pc = "exited"
        /\ pc \in {"search", "return"} => searches_done = ext - 1

\* a call asked for two more pages with two different tokens, got a matching
\* item on each of its three pages and is returning them
C9_Witness ==
    /\ pc = "return"
    /\ Len(sent) = 3
    /\ sent[2] # sent[3]
    /\ \A k \in 1..3 : Concatenated(<<pages[k]>>) # <<>>
    /\ Len(assets) = 3
    /\ ext = 2

-----------------------------------------------------------------------------
(* C10 *)

\* C10: when download_file has returned Failed or MissingRemote for a
\* record, no file exists at the record's destination.
C10_NoFileAfterFailure ==
    (pc # "download" /\ i > 0 /\ outcome \in {"failed", "missing"}) =>
        fs[LocalPathOf[all_assets[i]]] = "absent"

====
